---- MODULE Spec2Model ----
(***************************************************************************)
(* Model of the Task Watch Orchestrator: WatcherManager                    *)
(* (src/server/watcherManager.js) and Watcher (server/watcher.js, held in  *)
(* src/server/Master Pro Last.js, lines 1256-1568).                        *)
(*                                                                         *)
(* Node runs one callback at a time: every action below is the code that   *)
(* runs between two suspension points (an await on browser I/O or a        *)
(* timer).  Promise continuations that need no I/O run in the same action  *)
(* as the code that resolved them.                                         *)
(***************************************************************************)
EXTENDS Integers, Sequences, FiniteSets, TLC

\* ------------------------------------------------------------------ bounds
MaxTasks == 2        \* task objects (created or loaded)
MaxWatchers == 3     \* Watcher objects ever constructed
MaxReloads == 1      \* reloadTask calls explored
MaxCeiling == 1      \* largest configured maxPages explored
LifeTasks == 1       \* createTask calls explored together with reloadTask
MaxSubscribers == 2  \* send functions passed to addSseClient
MaxSuffix == 2       \* distinct random suffixes of a task id explored
MaxClock == 2        \* milliseconds of Date.now() explored

DefaultMaxPages == 6 \* constructor default of maxPages

Tasks == 1..MaxTasks
Watchers == 1..MaxWatchers
Reloads == 1..MaxReloads
Subscribers == 1..MaxSubscribers
Suffixes == 1..MaxSuffix        \* values of Math.random().toString(36).slice(2,5)

NoWatcher == 0
NoHref == "null"
Hrefs == {"h1", "h2"}          \* hrefs the detector may report
Recovered == "hr"              \* href the monitor's page.evaluate may recover

VARIABLES
  maxPages,       \* WatcherManager.maxPages
  tasksFile,      \* WatcherManager.tasksFile is set (persistence is configured)
  loaded,         \* what _loadTasksFromFile read from the tasks file at construction
  tasks,          \* WatcherManager.tasks: the registry, ids in insertion order
  obj,            \* the task objects: status, foundHref, watcher (kept when detached)
  nextId,         \* next task id to hand out
  ws,             \* the Watcher objects and the position of their start()
  nextW,          \* next Watcher object to construct
  monitors,       \* per task: live 800 ms monitor intervals
  evals,          \* found sequences awaiting page.evaluate, per <<task, watcher>>
  closing,        \* stop() calls awaiting context.close(), with their caller
  rl,             \* the reloadTask calls
  nextR,          \* next reloadTask call
  file,           \* the tasks file
  lastSavedJson,  \* WatcherManager._lastSavedJson
  saveTimer,      \* pending timeouts set by _saveTasksToFile (_saveTimer)
  storage,        \* server/storage.js: cache, pending timeouts, tasks.json
  sseClients,     \* WatcherManager.sseClients: the send functions, in insertion order
  throwing,       \* the send functions that throw when they are called
  handle,         \* per subscriber: its unsubscribe handle ("none", "held", "called")
  browser,        \* WatcherManager.browser
  sd,             \* the shutdown() call
  crashed,        \* the process died during a persistence write
  now,            \* Date.now()
  random,         \* the suffixes the next calls of Math.random() will give
  idOf,           \* per task object: its id field
  emitted,        \* events broadcast by the last step, in order
  received,       \* per subscriber: what its send function was called with in the last step
  ret,            \* what the last step returned to the caller of an operation
  foundRuns,      \* per task: found-completion sequences executed
  stopReturned    \* per task: a stopTask for it has returned true

vars == <<maxPages, tasksFile, loaded, tasks, obj, nextId, ws, nextW, monitors, evals, closing, rl,
          nextR, file, lastSavedJson, saveTimer, storage, sseClients, throwing, handle, browser,
          sd, crashed, now, random, idOf, emitted, received, ret, foundRuns, stopReturned>>

\* ----------------------------------------------------------------- helpers
\* A task id: `task-${Date.now()}-${Math.random().toString(36).slice(2,5)}`.
GenId(ms, sfx) == [ms |-> ms, sfx |-> sfx]
NoId == GenId(0, 0)

\* The ids in a tasks file were generated by an earlier process.
FileId(t) == GenId(0, t)

\* A seed of Math.random under which the suffixes of the ids differ.
DefaultStream == [i \in 1..MaxTasks |-> i]

NoTask == [status |-> "none", foundHref |-> NoHref, watcher |-> NoWatcher]

NoWatcherObj ==
  [task |-> 0, running |-> FALSE, found |-> FALSE, foundHref |-> NoHref,
   page |-> "null", reloadTimer |-> FALSE, rotateTimer |-> FALSE,
   pc |-> "new", caller |-> "none",
   reloadPc |-> "idle", rotatePc |-> "idle", rotateOld |-> FALSE,
   launches |-> FALSE, leaked |-> FALSE, cycleFailed |-> FALSE]

NoReload == [pc |-> "idle", id |-> 0, toStart |-> <<>>, idx |-> 0, wait |-> NoWatcher,
             active0 |-> {}, watchers0 |-> {}]

NoShutdown == [pc |-> "idle", idx |-> 0]

\* The value an operation returned: "true", "false", "id" (a task id), or a list.
Ret(op, v, list) == [op |-> op, v |-> v, list |-> list]

NoRet == Ret("none", "none", <<>>)

Ev(type, id, st, href) == [type |-> type, id |-> id, status |-> st, href |-> href]

\* ------------------------------------------------------------- subscribers
\* JSON.parse(JSON.stringify(obj)): a field whose value is undefined is dropped, the
\* other fields (strings, null, and the id, a number) come back as they were.
JsonCopy(e) ==
  [f \in DOMAIN e \ {g \in DOMAIN e \ {"id"} : e[g] = "undefined"} |-> e[f]]

IsClient(s) == \E i \in 1..Len(sseClients) : sseClients[i] = s

\* A broadcast loop without the try/catch around each call: the first send function
\* that throws ends the loop, and the clients after it are not called.
_broadcastUncaught(em, s) ==
  IF IsClient(s) /\ ~\E i, j \in 1..Len(sseClients) :
                       i < j /\ sseClients[i] \in throwing /\ sseClients[j] = s
  THEN [i \in 1..Len(em) |-> JsonCopy(em[i])]
  ELSE <<>>

\* _broadcast, once per event of em, as send function s sees it: every client of the
\* set is called with the copy of each event, whether or not a call throws.
_broadcast(em, s) ==
  IF IsClient(s) THEN [i \in 1..Len(em) |-> JsonCopy(em[i])] ELSE <<>>

\* What the send functions are called with in a step that broadcasts em.
Deliver(em) == [s \in Subscribers |-> _broadcast(em, s)]

InRegistry(t) == \E i \in 1..Len(tasks) : tasks[i] = t

\* safeTaskView: the projection of a task that leaves out the watcher handle.
safeTaskView(o, t) == [id |-> t, status |-> o[t].status, foundHref |-> o[t].foundHref]

\* this.tasks.map(({ watcher, ...rest }) => rest), serialised.
ToSave(ts, o) == [i \in 1..Len(ts) |-> safeTaskView(o, ts[i])]

\* An immediate save that records _lastSavedJson before it writes, so that a failed
\* write is remembered as done.
_saveRecordsBeforeWrite(ts, o, okWrite) ==
  LET json == ToSave(ts, o) IN
  IF ~tasksFile THEN <<file, lastSavedJson>>
  ELSE IF lastSavedJson = json THEN <<file, lastSavedJson>>
  ELSE IF okWrite THEN <<json, json>>
  ELSE <<file, json>>

\* _saveTasksToFileImmediate: what it leaves in <<file, _lastSavedJson>>; okWrite is
\* whether fs.writeFileSync succeeds.
_saveTasksToFileImmediate(ts, o, okWrite) ==
  LET json == ToSave(ts, o) IN
  IF ~tasksFile THEN <<file, lastSavedJson>>
  ELSE IF lastSavedJson = json THEN <<file, lastSavedJson>>
  ELSE IF okWrite THEN <<json, json>>
  ELSE <<file, lastSavedJson>>

\* A debounced save without the clearTimeout: the earlier timeouts stay pending.
_saveStacksTimers == IF tasksFile THEN saveTimer + 1 ELSE saveTimer

\* _saveTasksToFile: when persistence is configured the pending timeout is cleared
\* and a new one is set.
_saveTasksToFile == IF tasksFile THEN 1 ELSE saveTimer

\* Number of underlying sessions (contexts) that are open.
RECURSIVE CountOpen(_, _)
CountOpen(w, S) ==
  IF S = {} THEN 0
  ELSE LET x == CHOOSE y \in S : TRUE
       IN (IF w[x].page = "open" THEN 1 ELSE 0) + CountOpen(w, S \ {x})
OpenSessions == CountOpen(ws, Watchers)

\* ------------------------------------------------------------ construction
\* storage.js when loaded: no cache, no timer; tasks.json not written yet.
NoStorage == [cache |-> "null", timer |-> 0, file |-> "null"]

Init ==
  /\ maxPages = DefaultMaxPages
  /\ browser = "null"
  /\ sseClients = <<>>
  /\ throwing = {}
  /\ handle = [s \in Subscribers |-> "none"]
  /\ sd = NoShutdown
  /\ crashed = FALSE
  /\ now = 1
  /\ random = DefaultStream
  /\ received = [s \in Subscribers |-> <<>>]
  /\ tasksFile = FALSE
  /\ loaded = <<>>
  /\ tasks = <<>>
  /\ idOf = [t \in Tasks |-> NoId]
  /\ obj = [t \in Tasks |-> NoTask]
  /\ nextId = 1
  /\ ws = [w \in Watchers |-> NoWatcherObj]
  /\ nextW = 1
  /\ monitors = [t \in Tasks |-> 0]
  /\ evals = [p \in Tasks \X Watchers |-> 0]
  /\ closing = {}
  /\ rl = [r \in Reloads |-> NoReload]
  /\ nextR = 1
  /\ file = <<>>
  /\ lastSavedJson = <<>>
  /\ saveTimer = 0
  /\ storage = NoStorage
  /\ emitted = <<>>
  /\ ret = NoRet
  /\ foundRuns = [t \in Tasks |-> 0]
  /\ stopReturned = [t \in Tasks |-> FALSE]

\* ------------------------------------------------------------------ Watcher
\* new Watcher(...) followed by task.watcher = watcher and the synchronous head of
\* watcher.start(): running = true, then _openPageAndAttach awaits pageFactory.
NewStartingWatcher(t, caller) ==
  [NoWatcherObj EXCEPT !.task = t, !.running = TRUE, !.pc = "acquire", !.caller = caller,
                       !.launches = (browser = "null")]

\* The pageFactory call of watcher x can resolve: _ensureBrowser launches a browser
\* when there was none at the call; otherwise newContext needs the browser that was
\* there to be open still.
CanOpen(x) == ws[x].launches \/ browser = "open"

\* Watcher.stop() up to its first await: the latch and both timers are reset and
\* context.close() is called on the current context, if there is one.
stop(w, x) ==
  [w EXCEPT ![x].running = FALSE, ![x].found = FALSE, ![x].foundHref = NoHref,
            ![x].reloadTimer = FALSE, ![x].rotateTimer = FALSE,
            ![x].page = IF @ = "null" THEN "null" ELSE "closed"]

\* stop() suspends only when there is a context to close.
StopSuspends(x) == ws[x].page # "null"

\* _closePageContext after context.close() resolved: this.page = null.  A page that
\* was assigned while the close was awaited loses its only reference and stays open.
_closePageContext(w, x) ==
  [w EXCEPT ![x].page = "null", ![x].leaked = @ \/ w[x].page = "open"]

\* What the caller of _startTaskWatcher does when watcher.start() has settled:
\* createTask's background block, _resumeTaskWatcher, or restartAllWatchers.
StatusAfterStart(t, caller, ok) ==
  IF ~ok THEN "error"
  ELSE IF caller = "create"
       THEN (IF obj[t].status = "starting" THEN "running" ELSE obj[t].status)
       ELSE "running"

EventsAfterStart(t, caller, ok, st) ==
  IF ok
  THEN (IF caller = "resume"
        THEN <<Ev("resumed", t, st, obj[t].foundHref)>>
        ELSE <<Ev("taskStarted", t, st, obj[t].foundHref)>>)
  ELSE (IF caller = "create" THEN <<Ev("taskError", t, st, NoHref)>> ELSE <<>>)

\* start() settles for watcher x, whose fields are now w1.  On success both timers
\* are armed and _startTaskWatcher creates the monitor interval; on failure
\* running is reset.  Then the caller's continuation runs.  (The browser is left to
\* the action that settles the start.)
StartSettles(x, ok, w1) ==
  LET t == ws[x].task
      caller == ws[x].caller
      st == StatusAfterStart(t, caller, ok)
  IN /\ ws' = IF ok
              THEN [w1 EXCEPT ![x].pc = "started", ![x].reloadTimer = TRUE,
                              ![x].rotateTimer = TRUE]
              ELSE [w1 EXCEPT ![x].pc = "failed", ![x].running = FALSE]
     /\ monitors' = IF ok THEN [monitors EXCEPT ![t] = @ + 1] ELSE monitors
     /\ obj' = [obj EXCEPT ![t].status = st]
     /\ saveTimer' = _saveTasksToFile
     /\ ret' = NoRet
     /\ emitted' = EventsAfterStart(t, caller, ok, st)
     /\ received' = Deliver(emitted')
     /\ rl' = [r \in Reloads |->
                IF rl[r].pc = "starting" /\ rl[r].wait = x
                THEN [rl[r] EXCEPT !.pc = "delay", !.wait = NoWatcher]
                ELSE rl[r]]
     /\ UNCHANGED <<maxPages, tasksFile, loaded, now, random, idOf, crashed, storage, sseClients, throwing, handle, sd,
                    tasks, nextId, nextW, evals, closing, nextR, file,
                    lastSavedJson, foundRuns, stopReturned>>

\* pageFactory resolves: _createIncognitoPageForTask opened a context and a page.
\* this.page is assigned whatever running is by now; exposeFunction and goto follow.
AcquireOk(x) ==
  /\ ws[x].pc = "acquire"
  /\ CanOpen(x)
  /\ ws' = [ws EXCEPT ![x].page = "open", ![x].pc = "nav"]
  /\ browser' = "open"
  /\ ret' = NoRet
  /\ emitted' = <<>>
  /\ received' = Deliver(emitted')
  /\ UNCHANGED <<maxPages, tasksFile, loaded, now, random, idOf, crashed, storage, sseClients, throwing, handle, sd,
                 tasks, obj, nextId, nextW, monitors, evals, closing, rl,
                 nextR, file, lastSavedJson, saveTimer, foundRuns, stopReturned>>

\* pageFactory rejects: _openPageAndAttach throws, start() fails.  Either
\* chromium.launch rejected, or newContext or newPage did; in the second case a
\* browser that had to be launched is there now.
AcquireFail(x) ==
  /\ ws[x].pc = "acquire"
  /\ browser' \in {browser} \cup (IF ws[x].launches THEN {"open"} ELSE {})
  /\ StartSettles(x, FALSE, ws)

\* exposeFunction and goto (with its reload fallback) have settled; their errors are
\* swallowed.  _injectObserverScript then throws at once if stop() took the page
\* away, and otherwise evaluates the detector script in the page.
NavDone(x) ==
  /\ ws[x].pc = "nav"
  /\ IF ws[x].page = "open"
     THEN /\ ws' = [ws EXCEPT ![x].pc = "inject"]
          /\ ret' = NoRet
          /\ emitted' = <<>>
          /\ received' = Deliver(emitted')
          /\ UNCHANGED <<maxPages, tasksFile, loaded, now, random, idOf, crashed, storage, sseClients, throwing, handle, sd, browser,
                         tasks, obj, nextId, nextW, monitors, evals, closing,
                         rl, nextR, file, lastSavedJson, saveTimer, foundRuns,
                         stopReturned>>
     ELSE /\ StartSettles(x, FALSE, ws)
          /\ browser' = browser

\* page.evaluate of the detector script resolves.
InjectOk(x) ==
  /\ ws[x].pc = "inject"
  /\ ws[x].page = "open"
  /\ browser' = browser
  /\ StartSettles(x, TRUE, ws)

\* page.evaluate rejects (the page was closed under it, or the evaluation failed).
InjectFail(x) ==
  /\ ws[x].pc = "inject"
  /\ browser' = browser
  /\ StartSettles(x, FALSE, ws)

\* ------------------------------------------------------------- createTask
\* The task specs a caller may pass: complete, or with an empty location, target URL
\* or search identifier.
TaskSpecs == {"ok", "noLocation", "noUrl", "noIdentifier"}

\* createTask(sp): pushes the task, arms the debounced save, broadcasts taskCreated and
\* runs the background block up to the pageFactory await; then returns the id.  The
\* fields of sp are stored as they come (an empty one as null or ''), none is tested.
createTask(sp) ==
  /\ sp \in TaskSpecs
  /\ nextId <= MaxTasks
  /\ nextW <= MaxWatchers
  /\ LET t == nextId IN
     /\ tasks' = Append(tasks, t)
     /\ obj' = [obj EXCEPT ![t] = [status |-> "starting", foundHref |-> NoHref,
                                   watcher |-> nextW]]
     /\ ws' = [ws EXCEPT ![nextW] = NewStartingWatcher(t, "create")]
     /\ idOf' = [idOf EXCEPT ![t] = GenId(now, Head(random))]
     /\ random' = Tail(random)
     /\ ret' = Ret("createTask", "id", <<>>)
     /\ emitted' = <<Ev("taskCreated", t, "starting", NoHref)>>
     /\ received' = Deliver(emitted')
  /\ nextId' = nextId + 1
  /\ nextW' = nextW + 1
  /\ saveTimer' = _saveTasksToFile
  /\ UNCHANGED <<maxPages, tasksFile, loaded, now, crashed, storage, sseClients, throwing, handle, sd, browser,
                 monitors, evals, closing, rl, nextR, file, lastSavedJson,
                 foundRuns, stopReturned>>

\* The route without its test of the body.
PostTasksUnchecked(sp) == createTask(sp)

\* POST /api/tasks: a body with an empty location, cinemaUrl or identifier is
\* answered 400 before the manager is called; otherwise createTask runs and its id
\* is the answer.
PostTasks(sp) ==
  IF sp # "ok"
  THEN /\ ret' = Ret("POST /api/tasks", "400", <<>>)
       /\ emitted' = <<>>
       /\ received' = Deliver(emitted')
       /\ UNCHANGED <<maxPages, tasksFile, loaded, now, random, idOf, crashed, storage, sseClients, throwing, handle, sd, browser,
                      tasks, obj, nextId, ws, nextW, monitors,
                      evals, closing, rl, nextR, file, lastSavedJson, saveTimer, foundRuns,
                      stopReturned>>
  ELSE createTask(sp)

\* A binding callback without the latch guard: every call overwrites the href.
BindingCallOverwrite(x, href) ==
  /\ ws[x].pc \in {"inject", "started"}
  /\ ws[x].page = "open"
  /\ ws' = [ws EXCEPT ![x].found = TRUE, ![x].foundHref = href]
  /\ ret' = NoRet
  /\ emitted' = <<>>
  /\ received' = Deliver(emitted')
  /\ UNCHANGED <<maxPages, tasksFile, loaded, now, random, idOf, crashed, storage, sseClients, throwing, handle, sd, browser,
                 tasks, obj, nextId, nextW, monitors, evals, closing, rl,
                 nextR, file, lastSavedJson, saveTimer, foundRuns, stopReturned>>

\* The binding exposed by _openPageAndAttach, called by the detector script in the
\* watcher's page with the href of the link it matched (null when it has none).
BindingCall(x, href) ==
  /\ ws[x].pc \in {"inject", "started"}
  /\ ws[x].page = "open"
  /\ ws' = IF ~ws[x].found
           THEN [ws EXCEPT ![x].found = TRUE, ![x].foundHref = href]
           ELSE ws
  /\ ret' = NoRet
  /\ emitted' = <<>>
  /\ received' = Deliver(emitted')
  /\ UNCHANGED <<maxPages, tasksFile, loaded, now, random, idOf, crashed, storage, sseClients, throwing, handle, sd, browser,
                 tasks, obj, nextId, nextW, monitors, evals, closing, rl,
                 nextR, file, lastSavedJson, saveTimer, foundRuns, stopReturned>>

\* ------------------------------------------------- periodic reload and rotation
\* A step of a timer callback of the Watcher: only Watcher fields change.
CycleFrame ==
  /\ ret' = NoRet
  /\ emitted' = <<>>
  /\ received' = Deliver(emitted')
  /\ UNCHANGED <<maxPages, tasksFile, loaded, now, random, idOf, crashed, storage, sseClients, throwing, handle, sd,
                 tasks, obj, nextId, nextW, monitors, evals, closing, rl,
                 nextR, file, lastSavedJson, saveTimer, foundRuns, stopReturned>>

WatcherOnly == CycleFrame /\ browser' = browser

\* this.page = page in _openPageAndAttach: a page that is still referenced and open
\* is overwritten and stays open.
AssignPage(w, x) == [w EXCEPT ![x].page = "open", ![x].leaked = @ \/ w[x].page = "open"]

\* finally { this._scheduleReload(); }
ReloadEnd(w, x) == [w EXCEPT ![x].reloadPc = "idle", ![x].reloadTimer = TRUE]

\* The reload timeout fires.  A stopped or found Watcher returns at once; with no page
\* the callback reopens one (_openPageAndAttach, nothing to close first), otherwise it
\* navigates the page it has.
ReloadFire(x) ==
  /\ ws[x].reloadTimer
  /\ ws' = IF ~ws[x].running \/ ws[x].found
           THEN [ws EXCEPT ![x].reloadTimer = FALSE]
           ELSE [ws EXCEPT ![x].reloadTimer = FALSE,
                           ![x].reloadPc = IF ws[x].page = "null" THEN "acquire" ELSE "nav",
                           ![x].launches = IF ws[x].page = "null" THEN browser = "null"
                                           ELSE @]
  /\ WatcherOnly

\* pageFactory settles for the reload callback; a rejection is logged.
ReloadAcquireDone(x, ok) ==
  /\ ws[x].reloadPc = "acquire"
  /\ ok => CanOpen(x)
  /\ ws' = IF ok
           THEN [AssignPage(ws, x) EXCEPT ![x].reloadPc = "nav"]
           ELSE [ReloadEnd(ws, x) EXCEPT ![x].cycleFailed = TRUE]
  /\ browser' = IF ok THEN "open" ELSE browser
  /\ CycleFrame

\* goto (with its reload fallback) and exposeFunction have settled, errors swallowed;
\* _injectObserverScript throws at once when there is no page.
ReloadNavDone(x) ==
  /\ ws[x].reloadPc = "nav"
  /\ ws' = IF ws[x].page = "null"
           THEN [ReloadEnd(ws, x) EXCEPT ![x].cycleFailed = TRUE]
           ELSE [ws EXCEPT ![x].reloadPc = "inject"]
  /\ WatcherOnly

\* page.evaluate of the detector script settles; a rejection is logged.
ReloadInjectDone(x, ok) ==
  /\ ws[x].reloadPc = "inject"
  /\ ok => ws[x].page = "open"
  /\ ws' = IF ok THEN ReloadEnd(ws, x)
           ELSE [ReloadEnd(ws, x) EXCEPT ![x].cycleFailed = TRUE]
  /\ WatcherOnly

\* finally { this._scheduleRotate(); }
RotateEnd(w, x) ==
  [w EXCEPT ![x].rotatePc = "idle", ![x].rotateTimer = TRUE, ![x].rotateOld = FALSE]

\* After _openPageAndAttach settled: the old context, if there was one, is closed
\* (again) and awaited.
RotateAfterAttach(w, x) ==
  IF w[x].rotateOld THEN [w EXCEPT ![x].rotatePc = "closeOld"] ELSE RotateEnd(w, x)

\* The rotate timeout fires.  A stopped or found Watcher returns at once.  Otherwise
\* _openPageAndAttach runs: with a page, _closePageContext clears both timers and
\* awaits context.close(); with none, pageFactory is awaited.
RotateFire(x) ==
  /\ ws[x].rotateTimer
  /\ ws' = IF ~ws[x].running \/ ws[x].found
           THEN [ws EXCEPT ![x].rotateTimer = FALSE]
           ELSE IF ws[x].page # "null"
           THEN [ws EXCEPT ![x].rotateTimer = FALSE, ![x].reloadTimer = FALSE,
                           ![x].page = "closed", ![x].rotateOld = TRUE,
                           ![x].rotatePc = "close"]
           ELSE [ws EXCEPT ![x].rotateTimer = FALSE, ![x].rotateOld = FALSE,
                           ![x].rotatePc = "acquire", ![x].launches = (browser = "null")]
  /\ WatcherOnly

\* context.close() of _closePageContext resolved: this.page = null, then pageFactory.
RotateCloseDone(x) ==
  /\ ws[x].rotatePc = "close"
  /\ ws' = [_closePageContext(ws, x) EXCEPT ![x].rotatePc = "acquire",
                                            ![x].launches = (browser = "null")]
  /\ WatcherOnly

\* pageFactory settles for the rotate callback; a rejection is logged.
RotateAcquireDone(x, ok) ==
  /\ ws[x].rotatePc = "acquire"
  /\ ok => CanOpen(x)
  /\ ws' = IF ok
           THEN [AssignPage(ws, x) EXCEPT ![x].rotatePc = "nav"]
           ELSE [RotateAfterAttach(ws, x) EXCEPT ![x].cycleFailed = TRUE]
  /\ browser' = IF ok THEN "open" ELSE browser
  /\ CycleFrame

RotateNavDone(x) ==
  /\ ws[x].rotatePc = "nav"
  /\ ws' = IF ws[x].page = "null"
           THEN [RotateAfterAttach(ws, x) EXCEPT ![x].cycleFailed = TRUE]
           ELSE [ws EXCEPT ![x].rotatePc = "inject"]
  /\ WatcherOnly

RotateInjectDone(x, ok) ==
  /\ ws[x].rotatePc = "inject"
  /\ ok => ws[x].page = "open"
  /\ ws' = IF ok THEN RotateAfterAttach(ws, x)
           ELSE [RotateAfterAttach(ws, x) EXCEPT ![x].cycleFailed = TRUE]
  /\ WatcherOnly

\* oldContext.close() resolved.
RotateCloseOldDone(x) ==
  /\ ws[x].rotatePc = "closeOld"
  /\ ws' = RotateEnd(ws, x)
  /\ WatcherOnly

\* ----------------------------------------------------------------- monitor
\* The rest of the monitor's found branch once task.foundHref is settled (o1 holds the
\* task objects by then): debounced save, the two broadcasts, the booking automation,
\* then stop() on whatever task.watcher is now.
FoundTail(t, o1) ==
  LET y == o1[t].watcher IN
  /\ saveTimer' = _saveTasksToFile
  /\ ret' = NoRet
  /\ emitted' = <<Ev("found", t, o1[t].status, o1[t].foundHref),
                  Ev("alarmStarted", t, "n/a", NoHref)>>
  /\ received' = Deliver(emitted')
  /\ foundRuns' = [foundRuns EXCEPT ![t] = @ + 1]
  /\ IF y = NoWatcher
     THEN /\ ws' = ws
          /\ obj' = o1
          /\ closing' = closing
     ELSE /\ ws' = stop(ws, y)
          /\ IF StopSuspends(y)
             THEN /\ obj' = o1
                  /\ closing' = closing \cup {[w |-> y, by |-> "monitor", t |-> t, arg |-> 0]}
             ELSE /\ obj' = [o1 EXCEPT ![t].watcher = NoWatcher]
                  /\ closing' = closing

\* task.foundHref = task.watcher.foundHref || task.foundHref || null
MonitorHref(t, x) ==
  IF ws[x].foundHref # NoHref THEN ws[x].foundHref ELSE obj[t].foundHref

\* One tick of one monitor interval of task t.
MonitorTick(t) ==
  /\ monitors[t] > 0
  /\ LET x == obj[t].watcher IN
     IF x = NoWatcher
     THEN /\ monitors' = [monitors EXCEPT ![t] = @ - 1]
          /\ ret' = NoRet
          /\ emitted' = <<>>
          /\ received' = Deliver(emitted')
          /\ UNCHANGED <<maxPages, tasksFile, loaded, now, random, idOf, crashed, storage, sseClients, throwing, handle, sd, browser,
                         tasks, obj, nextId, ws, nextW, evals, closing, rl,
                         nextR, file, lastSavedJson, saveTimer, foundRuns, stopReturned>>
     ELSE IF ws[x].found
     THEN LET o1 == [obj EXCEPT ![t].status = "found", ![t].foundHref = MonitorHref(t, x)]
          IN /\ monitors' = [monitors EXCEPT ![t] = @ - 1]
             /\ IF o1[t].foundHref = NoHref /\ ws[x].page # "null"
                THEN /\ evals' = [evals EXCEPT ![<<t, x>>] = @ + 1]
                     /\ obj' = o1
                     /\ ret' = NoRet
                     /\ emitted' = <<>>
                     /\ received' = Deliver(emitted')
                     /\ UNCHANGED <<ws, closing, saveTimer, foundRuns>>
                ELSE /\ FoundTail(t, o1)
                     /\ evals' = evals
             /\ UNCHANGED <<maxPages, tasksFile, loaded, now, random, idOf, crashed, storage, sseClients, throwing, handle, sd, browser,
                            tasks, nextId, nextW, rl, nextR, file,
                            lastSavedJson, stopReturned>>
     ELSE /\ ret' = NoRet
          /\ emitted' = <<>>
          /\ received' = Deliver(emitted')
          /\ UNCHANGED <<maxPages, tasksFile, loaded, now, random, idOf, crashed, storage, sseClients, throwing, handle, sd, browser,
                         tasks, obj, nextId, ws, nextW, monitors, evals,
                         closing, rl, nextR, file, lastSavedJson, saveTimer, foundRuns,
                         stopReturned>>

\* The best-effort page.evaluate of the found branch settles with an href or null
\* (null as well when it rejected).
EvalDone(t, x, maybe) ==
  /\ evals[<<t, x>>] > 0
  /\ maybe # NoHref => ws[x].page = "open"
  /\ evals' = [evals EXCEPT ![<<t, x>>] = @ - 1]
  /\ FoundTail(t, IF maybe # NoHref THEN [obj EXCEPT ![t].foundHref = maybe] ELSE obj)
  /\ UNCHANGED <<maxPages, tasksFile, loaded, now, random, idOf, crashed, storage, sseClients, throwing, handle, sd, browser,
                 tasks, nextId, nextW, monitors, rl, nextR, file,
                 lastSavedJson, stopReturned>>

\* The stop() awaited at the end of the found branch returns: task.watcher = null.
MonitorStopDone(c) ==
  /\ c \in closing /\ c.by = "monitor"
  /\ closing' = closing \ {c}
  /\ ws' = _closePageContext(ws, c.w)
  /\ obj' = [obj EXCEPT ![c.t].watcher = NoWatcher]
  /\ ret' = NoRet
  /\ emitted' = <<>>
  /\ received' = Deliver(emitted')
  /\ UNCHANGED <<maxPages, tasksFile, loaded, now, random, idOf, crashed, storage, sseClients, throwing, handle, sd, browser,
                 tasks, nextId, nextW, monitors, evals, rl, nextR, file,
                 lastSavedJson, saveTimer, foundRuns, stopReturned>>

\* ------------------------------------------------------------ unknown ids
\* An early return that reports the failure as an error event too.
NotFoundBroadcasts(op, id) ==
  /\ ~InRegistry(id)
  /\ ret' = Ret(op, "false", <<>>)
  /\ emitted' = <<Ev("taskError", id, "n/a", NoHref)>>
  /\ received' = Deliver(emitted')
  /\ UNCHANGED <<maxPages, tasksFile, loaded, now, random, idOf, crashed, storage, sseClients, throwing, handle, sd, browser,
                 tasks, obj, nextId, ws, nextW, monitors, evals,
                 closing, rl, nextR, file, lastSavedJson, saveTimer, foundRuns, stopReturned>>

\* The early return of stopTask, deleteTask and reloadTask when no task of the
\* registry has the id: false is returned.
NotFound(op, id) ==
  /\ ~InRegistry(id)
  /\ ret' = Ret(op, "false", <<>>)
  /\ emitted' = <<>>
  /\ received' = Deliver(emitted')
  /\ UNCHANGED <<maxPages, tasksFile, loaded, now, random, idOf, crashed, storage, sseClients, throwing, handle, sd, browser,
                 tasks, obj, nextId, ws, nextW, monitors, evals,
                 closing, rl, nextR, file, lastSavedJson, saveTimer, foundRuns, stopReturned>>

StopTaskNotFound(id) == NotFound("stopTask", id)

DeleteTaskNotFound(id) == NotFound("deleteTask", id)

ReloadTaskNotFound(id) == NotFound("reloadTask", id)

\* ----------------------------------------------------------------- getTasks
\* A status filter that forgets the found tasks.
ActiveFilterNoFound(t) == obj[t].status \in {"running", "starting"}

\* The filter of getTasks() without {all: true}.
ActiveFilter(t) == obj[t].status \in {"running", "found", "starting"}

\* getTasks({all}): the registry, or its tasks that pass the status filter, each
\* mapped through safeTaskView.
TaskList(all) ==
  LET filtered == IF all THEN tasks ELSE SelectSeq(tasks, ActiveFilter)
  IN [i \in 1..Len(filtered) |-> safeTaskView(obj, filtered[i])]

getTasks(all) ==
  /\ ret' = Ret("getTasks", "list", TaskList(all))
  /\ emitted' = <<>>
  /\ received' = Deliver(emitted')
  /\ UNCHANGED <<maxPages, tasksFile, loaded, now, random, idOf, crashed, storage, sseClients, throwing, handle, sd, browser,
                 tasks, obj, nextId, ws, nextW, monitors, evals,
                 closing, rl, nextR, file, lastSavedJson, saveTimer, foundRuns, stopReturned>>

\* ---------------------------------------------------------------- stopTask
\* stopTask after the watcher (if any) has stopped; w1 holds the Watcher objects.
StopTaskTail(t, w1, okWrite) ==
  LET o1 == [obj EXCEPT ![t].watcher = NoWatcher, ![t].status = "stopped"]
      saved == _saveTasksToFileImmediate(tasks, o1, okWrite)
  IN /\ ws' = w1
     /\ obj' = o1
     /\ file' = saved[1]
     /\ lastSavedJson' = saved[2]
     /\ ret' = Ret("stopTask", "true", <<>>)
     /\ emitted' = <<Ev("stopped", t, "stopped", o1[t].foundHref)>>
     /\ received' = Deliver(emitted')
     /\ stopReturned' = [stopReturned EXCEPT ![t] = TRUE]
     /\ UNCHANGED <<maxPages, tasksFile, loaded, now, random, idOf, crashed, storage, sseClients, throwing, handle, sd, browser,
                    tasks, nextId, nextW, monitors, evals, rl, nextR,
                    saveTimer, foundRuns>>

\* stopTask(id) for an id of the registry, up to the await of watcher.stop().
StopTaskBegin(t, okWrite) ==
  /\ InRegistry(t)
  /\ LET x == obj[t].watcher IN
     IF x # NoWatcher /\ StopSuspends(x)
     THEN /\ ws' = stop(ws, x)
          /\ closing' = closing \cup {[w |-> x, by |-> "stopTask", t |-> t, arg |-> 0]}
          /\ ret' = NoRet
          /\ emitted' = <<>>
          /\ received' = Deliver(emitted')
          /\ UNCHANGED <<maxPages, tasksFile, loaded, now, random, idOf, crashed, storage, sseClients, throwing, handle, sd, browser,
                         tasks, obj, nextId, nextW, monitors, evals, rl, nextR,
                         file, lastSavedJson, saveTimer, foundRuns, stopReturned>>
     ELSE /\ StopTaskTail(t, IF x # NoWatcher THEN stop(ws, x) ELSE ws, okWrite)
          /\ closing' = closing

StopTaskFinish(c, okWrite) ==
  /\ c \in closing /\ c.by = "stopTask"
  /\ closing' = closing \ {c}
  /\ StopTaskTail(c.t, _closePageContext(ws, c.w), okWrite)

\* -------------------------------------------------------------- deleteTask
IndexOf(ts, t) == CHOOSE i \in 1..Len(ts) : ts[i] = t

\* this.tasks.splice(idx, 1)
Splice(ts, idx) ==
  IF idx > Len(ts) THEN ts ELSE SubSeq(ts, 1, idx - 1) \o SubSeq(ts, idx + 1, Len(ts))

\* deleteTask after the watcher (if any) has stopped; idx was read before the await.
DeleteTaskTail(t, idx, o1, w1, okWrite) ==
  LET ts == Splice(tasks, idx)
      saved == _saveTasksToFileImmediate(ts, o1, okWrite)
  IN /\ ws' = w1
     /\ obj' = o1
     /\ tasks' = ts
     /\ file' = saved[1]
     /\ lastSavedJson' = saved[2]
     /\ ret' = Ret("deleteTask", "true", <<>>)
     /\ emitted' = <<Ev("deleted", t, "n/a", NoHref)>>
     /\ received' = Deliver(emitted')
     /\ UNCHANGED <<maxPages, tasksFile, loaded, now, random, idOf, crashed, storage, sseClients, throwing, handle, sd, browser,
                    nextId, nextW, monitors, evals, rl, nextR, saveTimer,
                    foundRuns, stopReturned>>

DeleteTaskBegin(t, okWrite) ==
  /\ InRegistry(t)
  /\ LET x == obj[t].watcher
         idx == IndexOf(tasks, t)
     IN IF x # NoWatcher /\ StopSuspends(x)
        THEN /\ ws' = stop(ws, x)
             /\ closing' = closing \cup {[w |-> x, by |-> "deleteTask", t |-> t, arg |-> idx]}
             /\ ret' = NoRet
             /\ emitted' = <<>>
             /\ received' = Deliver(emitted')
             /\ UNCHANGED <<maxPages, tasksFile, loaded, now, random, idOf, crashed, storage, sseClients, throwing, handle, sd, browser,
                            tasks, obj, nextId, nextW, monitors, evals, rl,
                            nextR, file, lastSavedJson, saveTimer, foundRuns,
                            stopReturned>>
        ELSE /\ DeleteTaskTail(t, idx,
                               IF x # NoWatcher THEN [obj EXCEPT ![t].watcher = NoWatcher]
                               ELSE obj,
                               IF x # NoWatcher THEN stop(ws, x) ELSE ws, okWrite)
             /\ closing' = closing

DeleteTaskFinish(c, okWrite) ==
  /\ c \in closing /\ c.by = "deleteTask"
  /\ closing' = closing \ {c}
  /\ DeleteTaskTail(c.t, c.arg, [obj EXCEPT ![c.t].watcher = NoWatcher],
                    _closePageContext(ws, c.w), okWrite)

\* -------------------------------------------------------------- reloadTask
IsActive(st) == st \in {"starting", "running", "resumed"}

RegistrySet == {tasks[i] : i \in 1..Len(tasks)}

\* stopAllWatchers calls stop() on every registry task's watcher before it awaits any.
StopAll(w, X) == [x \in Watchers |-> IF x \in X THEN stop(w, x)[x] ELSE w[x]]

\* stopAllWatchers after one stop() returned: t.watcher = null, running -> starting.
AfterStopAll(o, t) ==
  [o EXCEPT ![t].watcher = NoWatcher,
            ![t].status = IF @ = "running" THEN "starting" ELSE @]

\* reloadTask(id) for an id of the registry: marks the active tasks 'starting', arms
\* the debounced save and runs stopAllWatchers up to the awaits of stop().  When no
\* stop() suspends, Promise.all resolves and the immediate save follows.
ReloadBegin(id, okWrite) ==
  /\ InRegistry(id)
  /\ nextR <= MaxReloads
  /\ LET r == nextR
         o1 == [t \in Tasks |->
                 IF t \in RegistrySet /\ IsActive(obj[t].status)
                 THEN [obj[t] EXCEPT !.status = "starting"] ELSE obj[t]]
         S == {t \in RegistrySet : o1[t].watcher # NoWatcher}
         Susp == {t \in S : StopSuspends(o1[t].watcher)}
         o2 == [t \in Tasks |-> IF t \in S \ Susp THEN AfterStopAll(o1, t)[t] ELSE o1[t]]
         saved == IF Susp = {} THEN _saveTasksToFileImmediate(tasks, o2, okWrite)
                  ELSE <<file, lastSavedJson>>
     IN /\ ws' = StopAll(ws, {o1[t].watcher : t \in S})
        /\ obj' = o2
        /\ closing' = closing \cup
              {[w |-> o1[t].watcher, by |-> "stopAll", t |-> t, arg |-> r] : t \in Susp}
        /\ file' = saved[1]
        /\ lastSavedJson' = saved[2]
        /\ rl' = [rl EXCEPT ![r] =
                    [NoReload EXCEPT !.pc = IF Susp = {} THEN "pause" ELSE "stopping",
                                     !.id = id,
                                     !.active0 = {t \in RegistrySet : IsActive(obj[t].status)},
                                     !.watchers0 = 1..(nextW - 1)]]
  /\ nextR' = nextR + 1
  /\ saveTimer' = _saveTasksToFile
  /\ ret' = NoRet
  /\ emitted' = <<>>
  /\ received' = Deliver(emitted')
  /\ UNCHANGED <<maxPages, tasksFile, loaded, now, random, idOf, crashed, storage, sseClients, throwing, handle, sd, browser,
                 tasks, nextId, nextW, monitors, evals, foundRuns, stopReturned>>

\* One stop() awaited by stopAllWatchers returns; after the last one Promise.all
\* resolves, the registry is saved at once and reloadTask starts its 250 ms pause.
ReloadStopFinish(c, okWrite) ==
  /\ c \in closing /\ c.by = "stopAll"
  /\ LET o1 == AfterStopAll(obj, c.t)
         last == ~\E d \in closing \ {c} : d.by = "stopAll" /\ d.arg = c.arg
         saved == IF last THEN _saveTasksToFileImmediate(tasks, o1, okWrite)
                  ELSE <<file, lastSavedJson>>
     IN /\ obj' = o1
        /\ file' = saved[1]
        /\ lastSavedJson' = saved[2]
        /\ rl' = IF last THEN [rl EXCEPT ![c.arg].pc = "pause"] ELSE rl
  /\ closing' = closing \ {c}
  /\ ws' = _closePageContext(ws, c.w)
  /\ ret' = NoRet
  /\ emitted' = <<>>
  /\ received' = Deliver(emitted')
  /\ UNCHANGED <<maxPages, tasksFile, loaded, now, random, idOf, crashed, storage, sseClients, throwing, handle, sd, browser,
                 tasks, nextId, nextW, monitors, evals, nextR, saveTimer,
                 foundRuns, stopReturned>>

ToStartTest(t) == IsActive(obj[t].status)

\* restartAllWatchers' loop from position i of toStart: tasks that have a watcher are
\* skipped; the next one gets a new Watcher, whose start() is awaited.  After the
\* last task reloadTask broadcasts 'reloaded' and returns true.
RestartLoop(r, toStart, i) ==
  LET cand == {j \in i..Len(toStart) : obj[toStart[j]].watcher = NoWatcher} IN
  IF cand = {}
  THEN /\ rl' = [rl EXCEPT ![r].pc = "done", ![r].toStart = toStart,
                           ![r].idx = Len(toStart) + 1]
       /\ ret' = Ret("reloadTask", "true", <<>>)
       /\ emitted' = <<Ev("reloaded", rl[r].id, obj[rl[r].id].status,
                          obj[rl[r].id].foundHref)>>
       /\ received' = Deliver(emitted')
       /\ UNCHANGED <<obj, ws, nextW>>
  ELSE LET j == CHOOSE k \in cand : \A m \in cand : k <= m
           t == toStart[j]
       IN /\ nextW <= MaxWatchers
          /\ obj' = [obj EXCEPT ![t].watcher = nextW]
          /\ ws' = [ws EXCEPT ![nextW] = NewStartingWatcher(t, "restart")]
          /\ nextW' = nextW + 1
          /\ rl' = [rl EXCEPT ![r].pc = "starting", ![r].toStart = toStart,
                              ![r].idx = j, ![r].wait = nextW]
          /\ ret' = NoRet
          /\ emitted' = <<>>
          /\ received' = Deliver(emitted')

\* The 250 ms pause of reloadTask is over: restartAllWatchers reads toStart.
ReloadPauseDone(r) ==
  /\ rl[r].pc = "pause"
  /\ RestartLoop(r, SelectSeq(tasks, ToStartTest), 1)
  /\ UNCHANGED <<maxPages, tasksFile, loaded, now, random, idOf, crashed, storage, sseClients, throwing, handle, sd, browser,
                 tasks, nextId, monitors, evals, closing, nextR, file,
                 lastSavedJson, saveTimer, foundRuns, stopReturned>>

\* The 400 ms delay after one restart is over.
ReloadDelayDone(r) ==
  /\ rl[r].pc = "delay"
  /\ RestartLoop(r, rl[r].toStart, rl[r].idx + 1)
  /\ UNCHANGED <<maxPages, tasksFile, loaded, now, random, idOf, crashed, storage, sseClients, throwing, handle, sd, browser,
                 tasks, nextId, monitors, evals, closing, nextR, file,
                 lastSavedJson, saveTimer, foundRuns, stopReturned>>

\* ------------------------------------------------------------- persistence
\* The timer armed by _saveTasksToFile fires.
SaveTimerFire(okWrite) ==
  /\ saveTimer > 0
  /\ saveTimer' = saveTimer - 1
  /\ LET saved == _saveTasksToFileImmediate(tasks, obj, okWrite) IN
     /\ file' = saved[1]
     /\ lastSavedJson' = saved[2]
  /\ ret' = NoRet
  /\ emitted' = <<>>
  /\ received' = Deliver(emitted')
  /\ UNCHANGED <<maxPages, tasksFile, loaded, now, random, idOf, crashed, storage, sseClients, throwing, handle, sd, browser,
                 tasks, obj, nextId, ws, nextW, monitors, evals, closing, rl,
                 nextR, foundRuns, stopReturned>>

\* What a reader finds where the text of a snapshot breaks off.
Unparsable == [id |-> 0, status |-> "unparsable", foundHref |-> NoHref]

\* The file after fs.writeFileSync(tasksFile, json) was cut short: the file was
\* truncated when it was opened, and the first k records of json, followed by an
\* incomplete rest (nothing at all when k = 0), have been written.
Torn(json, k) == SubSeq(json, 1, k) \o <<Unparsable>>

\* What the tasks file can hold when the process dies inside
\* fs.writeFileSync(tasksFile, json): the old text (the file not opened yet), a cut
\* text, or json.
WriteFileSyncCrash(json) == {file, json} \cup {Torn(json, k) : k \in 0..Len(json)}

\* The timer armed by _saveTasksToFile fires and fs.writeFileSync throws after it
\* has opened, and so truncated, the tasks file (no space left, I/O error): the
\* file is cut, the catch logs, and _lastSavedJson is not assigned.
SaveTimerFireCut ==
  /\ saveTimer > 0
  /\ tasksFile
  /\ lastSavedJson # ToSave(tasks, obj)
  /\ saveTimer' = saveTimer - 1
  /\ \E k \in 0..Len(tasks) : file' = Torn(ToSave(tasks, obj), k)
  /\ ret' = NoRet
  /\ emitted' = <<>>
  /\ received' = Deliver(emitted')
  /\ UNCHANGED <<maxPages, tasksFile, loaded, now, random, idOf, crashed, storage, sseClients, throwing, handle, sd, browser,
                 tasks, obj, nextId, ws, nextW, monitors, evals, closing, rl,
                 nextR, lastSavedJson, foundRuns, stopReturned>>

\* The process dies while the debounced save writes the registry.  The write happens
\* only with persistence configured and a registry that differs from _lastSavedJson.
CrashInSave ==
  /\ ~crashed
  /\ saveTimer > 0
  /\ tasksFile
  /\ lastSavedJson # ToSave(tasks, obj)
  /\ file' \in WriteFileSyncCrash(ToSave(tasks, obj))
  /\ crashed' = TRUE
  /\ saveTimer' = saveTimer - 1
  /\ ret' = NoRet
  /\ emitted' = <<>>
  /\ received' = Deliver(emitted')
  /\ UNCHANGED <<maxPages, tasksFile, loaded, now, random, idOf, storage, sseClients, throwing, handle, sd, browser,
                 tasks, obj, nextId, ws, nextW, monitors, evals, closing, rl, nextR,
                 lastSavedJson, foundRuns, stopReturned>>

\* ------------------------------------------------------------- storage.js
StorageData == {"d1", "d2"}

\* write(newData): the cache is replaced; scheduleWrite clears the pending timeout
\* and sets a new one.
write(newData) ==
  /\ storage' = [storage EXCEPT !.cache = newData, !.timer = 1]
  /\ ret' = NoRet
  /\ emitted' = <<>>
  /\ received' = Deliver(emitted')
  /\ UNCHANGED <<maxPages, tasksFile, loaded, now, random, idOf, crashed, sseClients, throwing, handle, sd, browser,
                 tasks, obj, nextId, ws, nextW, monitors, evals, closing,
                 rl, nextR, file, lastSavedJson, saveTimer, foundRuns, stopReturned>>

\* The timeout of scheduleWrite fires: the cache as it is now goes to tasks.json
\* (through tasks.json.tmp); a failure is logged and leaves tasks.json as it was.
StorageTimerFire(okWrite) ==
  /\ storage.timer > 0
  /\ storage' = [storage EXCEPT !.timer = @ - 1,
                                !.file = IF okWrite THEN storage.cache ELSE @]
  /\ ret' = NoRet
  /\ emitted' = <<>>
  /\ received' = Deliver(emitted')
  /\ UNCHANGED <<maxPages, tasksFile, loaded, now, random, idOf, crashed, sseClients, throwing, handle, sd, browser,
                 tasks, obj, nextId, ws, nextW, monitors, evals, closing,
                 rl, nextR, file, lastSavedJson, saveTimer, foundRuns, stopReturned>>

\* ---------------------------------------------------------------- shutdown
\* The loop of shutdown() from position i of this.tasks, with task objects o and
\* Watcher objects w: each task's watcher (kept in task.watcher) is stopped and the
\* task is marked 'stopped', whatever its status was.  The loop runs until a stop()
\* has a context to close (at is that position) or the tasks are exhausted (at = 0).
RECURSIVE ShutdownLoop(_, _, _)
ShutdownLoop(i, o, w) ==
  IF i > Len(tasks) THEN [o |-> o, w |-> w, at |-> 0]
  ELSE LET t == tasks[i]
           x == o[t].watcher
       IN IF x # NoWatcher /\ w[x].page # "null"
          THEN [o |-> o, w |-> stop(w, x), at |-> i]
          ELSE ShutdownLoop(i + 1, [o EXCEPT ![t].status = "stopped"],
                            IF x # NoWatcher THEN stop(w, x) ELSE w)

\* browser.close() is called: the contexts of the browser are closed with it.
BrowserCloses(w) ==
  [x \in Watchers |-> [w[x] EXCEPT !.page = IF @ = "open" THEN "closed" ELSE @,
                                   !.leaked = FALSE]]

\* shutdown() from the state r its loop has reached, cl being the stop() calls that
\* others still await.  After the loop the registry is saved at once and the browser,
\* if there is one, is closed and awaited.
ShutdownGoesOn(r, cl, okWrite) ==
  IF r.at > 0
  THEN /\ ws' = r.w
       /\ obj' = r.o
       /\ closing' = cl \cup {[w |-> r.o[tasks[r.at]].watcher, by |-> "shutdown",
                                     t |-> tasks[r.at], arg |-> r.at]}
       /\ sd' = [pc |-> "stopping", idx |-> r.at]
       /\ UNCHANGED <<file, lastSavedJson, browser>>
  ELSE LET saved == _saveTasksToFileImmediate(tasks, r.o, okWrite) IN
       /\ obj' = r.o
       /\ file' = saved[1]
       /\ lastSavedJson' = saved[2]
       /\ closing' = cl
       /\ IF browser # "null"
          THEN /\ ws' = BrowserCloses(r.w)
               /\ browser' = "closing"
               /\ sd' = [pc |-> "closingBrowser", idx |-> 0]
          ELSE /\ ws' = r.w
               /\ browser' = browser
               /\ sd' = [pc |-> "done", idx |-> 0]

ShutdownFrame ==
  /\ ret' = NoRet
  /\ emitted' = <<>>
  /\ received' = Deliver(emitted')
  /\ UNCHANGED <<maxPages, tasksFile, loaded, now, random, idOf, crashed, storage, sseClients, throwing, handle, tasks, nextId,
                 nextW, monitors, evals, rl, nextR, saveTimer, foundRuns, stopReturned>>

\* shutdown() is called.
ShutdownBegin(okWrite) ==
  /\ sd.pc = "idle"
  /\ ShutdownGoesOn(ShutdownLoop(1, obj, ws), closing, okWrite)
  /\ ShutdownFrame

\* The stop() awaited by the loop of shutdown() returns: this.page = null in the
\* Watcher, 'stopped' for the task, and the loop goes on with the next task.
ShutdownStopDone(c, okWrite) ==
  /\ c \in closing /\ c.by = "shutdown"
  /\ ShutdownGoesOn(ShutdownLoop(c.arg + 1, [obj EXCEPT ![c.t].status = "stopped"],
                                 _closePageContext(ws, c.w)),
                    closing \ {c}, okWrite)
  /\ ShutdownFrame

\* browser.close() resolved: this.browser = null, and shutdown() returns.
ShutdownBrowserClosed ==
  /\ sd.pc = "closingBrowser"
  /\ browser' = "null"
  /\ sd' = [pc |-> "done", idx |-> 0]
  /\ ret' = NoRet
  /\ emitted' = <<>>
  /\ received' = Deliver(emitted')
  /\ UNCHANGED <<maxPages, tasksFile, loaded, now, random, idOf, crashed, storage, sseClients, throwing, handle, tasks, obj,
                 nextId, ws, nextW, monitors, evals, closing, rl, nextR, file, lastSavedJson,
                 saveTimer, foundRuns, stopReturned>>

\* The process dies while the timeout of scheduleWrite writes: inside writeFileSync
\* only tasks.json.tmp is touched; renameSync replaces tasks.json in one step.
CrashInStorageWrite ==
  /\ ~crashed
  /\ storage.timer > 0
  /\ \E renamed \in BOOLEAN :
       storage' = [storage EXCEPT !.timer = @ - 1,
                                  !.file = IF renamed THEN storage.cache ELSE @]
  /\ crashed' = TRUE
  /\ ret' = NoRet
  /\ emitted' = <<>>
  /\ received' = Deliver(emitted')
  /\ UNCHANGED <<maxPages, tasksFile, loaded, now, random, idOf, sseClients, throwing, handle, sd, browser,
                 tasks, obj, nextId, ws, nextW, monitors, evals, closing, rl, nextR, file,
                 lastSavedJson, saveTimer, foundRuns, stopReturned>>

\* ------------------------------------------------------------ subscriptions
\* A handle that deletes nothing.
SetDeleteNothing(cs, s) == cs

\* Set.delete(sendFn): the other entries keep their insertion order.
SetDelete(cs, s) == SelectSeq(cs, LAMBDA c : c # s)

\* addSseClient(sendFn) with a send function not passed before (GET /events makes a
\* new one per connection): it is added to the set and the unsubscribe handle is
\* returned.  throws tells whether calls of this send function throw.
addSseClient(s, throws) ==
  /\ handle[s] = "none"
  /\ sseClients' = IF IsClient(s) THEN sseClients ELSE Append(sseClients, s)
  /\ throwing' = IF throws THEN throwing \cup {s} ELSE throwing
  /\ handle' = [handle EXCEPT ![s] = "held"]
  /\ ret' = NoRet
  /\ emitted' = <<>>
  /\ received' = Deliver(emitted')
  /\ UNCHANGED <<maxPages, tasksFile, loaded, now, random, idOf, crashed, storage, sd, browser, tasks, obj, nextId, ws, nextW,
                 monitors, evals, closing, rl, nextR, file, lastSavedJson, saveTimer,
                 foundRuns, stopReturned>>

\* The handle returned to s is called (on 'close' of the request, or by any holder,
\* once or again): the send function is deleted from the set.
unsubscribe(s) ==
  /\ handle[s] # "none"
  /\ sseClients' = SetDelete(sseClients, s)
  /\ handle' = [handle EXCEPT ![s] = "called"]
  /\ ret' = NoRet
  /\ emitted' = <<>>
  /\ received' = Deliver(emitted')
  /\ UNCHANGED <<maxPages, tasksFile, loaded, now, random, idOf, crashed, storage, throwing, sd, browser, tasks, obj, nextId, ws,
                 nextW, monitors, evals, closing, rl, nextR, file, lastSavedJson, saveTimer,
                 foundRuns, stopReturned>>

\* ------------------------------------------------------------ specification
StartStep ==
  \E x \in Watchers :
    \/ AcquireOk(x)
    \/ AcquireFail(x)
    \/ NavDone(x)
    \/ InjectOk(x)
    \/ InjectFail(x)

DetectorStep == \E x \in Watchers, href \in Hrefs \cup {NoHref} : BindingCall(x, href)

MonitorStep ==
  \/ \E t \in Tasks : MonitorTick(t)
  \/ \E t \in Tasks, x \in Watchers, maybe \in {NoHref, Recovered} : EvalDone(t, x, maybe)
  \/ \E c \in closing : MonitorStopDone(c)

StopStep ==
  \E okWrite \in BOOLEAN :
    \/ \E t \in Tasks : StopTaskBegin(t, okWrite)
    \/ \E c \in closing : StopTaskFinish(c, okWrite)

DeleteStep ==
  \E okWrite \in BOOLEAN :
    \/ \E t \in Tasks : DeleteTaskBegin(t, okWrite)
    \/ \E c \in closing : DeleteTaskFinish(c, okWrite)

ReloadStep ==
  \/ \E id \in Tasks, okWrite \in BOOLEAN : ReloadBegin(id, okWrite)
  \/ \E c \in closing, okWrite \in BOOLEAN : ReloadStopFinish(c, okWrite)
  \/ \E r \in Reloads : ReloadPauseDone(r)
  \/ \E r \in Reloads : ReloadDelayDone(r)

SaveStep == \E okWrite \in BOOLEAN : SaveTimerFire(okWrite)

UnknownIdStep ==
  \E id \in Tasks :
    \/ StopTaskNotFound(id)
    \/ DeleteTaskNotFound(id)
    \/ ReloadTaskNotFound(id)

ListStep == \E all \in BOOLEAN : getTasks(all)

PostStep == \E sp \in TaskSpecs : PostTasks(sp)

StorageStep ==
  \/ \E newData \in StorageData : write(newData)
  \/ \E okWrite \in BOOLEAN : StorageTimerFire(okWrite)

ShutdownStep ==
  \/ \E okWrite \in BOOLEAN : ShutdownBegin(okWrite)
  \/ \E c \in closing, okWrite \in BOOLEAN : ShutdownStopDone(c, okWrite)
  \/ ShutdownBrowserClosed

SseStep ==
  \/ \E s \in Subscribers, throws \in BOOLEAN : addSseClient(s, throws)
  \/ \E s \in Subscribers : unsubscribe(s)

\* One task through its whole life, reloadTask included; no tasks file configured.
CreateOne == nextId <= LifeTasks /\ \E sp \in TaskSpecs : createTask(sp)

Next ==
  \/ CreateOne
  \/ StartStep
  \/ DetectorStep
  \/ MonitorStep
  \/ StopStep
  \/ DeleteStep
  \/ ReloadStep

Spec == Init /\ [][Next]_vars

\* Several tasks side by side, without reloadTask; maxPages is the constructor's argument.
InitTwo ==
  /\ maxPages \in 1..MaxCeiling
  /\ browser = "null"
  /\ sseClients = <<>>
  /\ throwing = {}
  /\ handle = [s \in Subscribers |-> "none"]
  /\ sd = NoShutdown
  /\ crashed = FALSE
  /\ now = 1
  /\ random = DefaultStream
  /\ received = [s \in Subscribers |-> <<>>]
  /\ tasksFile = FALSE
  /\ loaded = <<>>
  /\ tasks = <<>>
  /\ idOf = [t \in Tasks |-> NoId]
  /\ obj = [t \in Tasks |-> NoTask]
  /\ nextId = 1
  /\ ws = [w \in Watchers |-> NoWatcherObj]
  /\ nextW = 1
  /\ monitors = [t \in Tasks |-> 0]
  /\ evals = [p \in Tasks \X Watchers |-> 0]
  /\ closing = {}
  /\ rl = [r \in Reloads |-> NoReload]
  /\ nextR = 1
  /\ file = <<>>
  /\ lastSavedJson = <<>>
  /\ saveTimer = 0
  /\ storage = NoStorage
  /\ emitted = <<>>
  /\ ret = NoRet
  /\ foundRuns = [t \in Tasks |-> 0]
  /\ stopReturned = [t \in Tasks |-> FALSE]

NextTwo ==
  \/ \E sp \in TaskSpecs : createTask(sp)
  \/ StartStep
  \/ DetectorStep
  \/ MonitorStep
  \/ StopStep
  \/ DeleteStep

SpecTwo == InitTwo /\ [][NextTwo]_vars

\* ------------------------------------------------------- load-time resume
PersistedStatus == {"starting", "running", "found", "stopped", "error"}

\* Tasks files the program can have written: records with distinct ids, in order.
PersistedFiles ==
  UNION {[1..n -> [status : PersistedStatus, foundHref : {NoHref, "h1"}]] : n \in 0..MaxTasks}

\* Resume tests that take too little and too much.
ResumeRunningOnly(st) == st = "running"

ResumeAlsoError(st) == st \in {"running", "starting", "error"}

NeedsResume(st) == st \in {"running", "starting"}

\* Position among the resumed tasks, which get their Watcher objects in file order.
ResumeRank(F, i) == Cardinality({j \in 1..i : NeedsResume(F[j].status)})

\* The constructor with a tasks file holding F: _loadTasksFromFile reads the tasks,
\* sets _lastSavedJson to what it read, and calls _resumeTaskWatcher for every task
\* that is 'running' or 'starting'; each call sets 'starting', constructs a Watcher
\* and runs start() up to the pageFactory await.
_loadTasksFromFile(F) ==
  LET n == Len(F)
      read == [t \in Tasks |->
                IF t <= n THEN [status |-> F[t].status, foundHref |-> F[t].foundHref,
                                watcher |-> NoWatcher]
                ELSE NoTask]
      ids == [i \in 1..n |-> i]
  IN /\ loaded = F
     /\ tasks = ids
     /\ idOf = [t \in Tasks |-> IF t <= n THEN FileId(t) ELSE NoId]
     /\ file = ToSave(ids, read)
     /\ lastSavedJson = ToSave(ids, read)
     /\ obj = [t \in Tasks |->
                IF t <= n /\ NeedsResume(F[t].status)
                THEN [read[t] EXCEPT !.status = "starting", !.watcher = ResumeRank(F, t)]
                ELSE read[t]]
     /\ ws = [x \in Watchers |->
               IF \E t \in 1..n : NeedsResume(F[t].status) /\ ResumeRank(F, t) = x
               THEN NewStartingWatcher(
                      CHOOSE t \in 1..n : NeedsResume(F[t].status) /\ ResumeRank(F, t) = x,
                      "resume")
               ELSE NoWatcherObj]
     /\ nextId = n + 1
     /\ nextW = ResumeRank(F, n) + 1

InitLoad ==
  /\ maxPages = DefaultMaxPages
  /\ browser = "null"
  /\ sseClients = <<>>
  /\ throwing = {}
  /\ handle = [s \in Subscribers |-> "none"]
  /\ sd = NoShutdown
  /\ crashed = FALSE
  /\ now = 1
  /\ random = DefaultStream
  /\ received = [s \in Subscribers |-> <<>>]
  /\ tasksFile = TRUE
  /\ \E F \in PersistedFiles : _loadTasksFromFile(F)
  /\ monitors = [t \in Tasks |-> 0]
  /\ evals = [p \in Tasks \X Watchers |-> 0]
  /\ closing = {}
  /\ rl = [r \in Reloads |-> NoReload]
  /\ nextR = 1
  /\ saveTimer = 0
  /\ storage = NoStorage
  /\ emitted = <<>>
  /\ ret = NoRet
  /\ foundRuns = [t \in Tasks |-> 0]
  /\ stopReturned = [t \in Tasks |-> FALSE]

\* After construction from a tasks file, with no client request.
NextLoad ==
  \/ StartStep
  \/ DetectorStep
  \/ MonitorStep
  \/ SaveStep

\* Every browser call of start() is under a timeout and so settles.
StartOf(x) == AcquireOk(x) \/ AcquireFail(x) \/ NavDone(x) \/ InjectOk(x) \/ InjectFail(x)

FairStart == \A x \in Watchers : WF_vars(StartOf(x))

SpecLoad == InitLoad /\ [][NextLoad]_vars /\ FairStart

\* One task with a tasks file configured (created empty by the constructor), and
\* storage.js in use next to it.
InitFile ==
  /\ maxPages = DefaultMaxPages
  /\ browser = "null"
  /\ sseClients = <<>>
  /\ throwing = {}
  /\ handle = [s \in Subscribers |-> "none"]
  /\ sd = NoShutdown
  /\ crashed = FALSE
  /\ now = 1
  /\ random = DefaultStream
  /\ received = [s \in Subscribers |-> <<>>]
  /\ tasksFile = TRUE
  /\ _loadTasksFromFile(<<>>)
  /\ monitors = [t \in Tasks |-> 0]
  /\ evals = [p \in Tasks \X Watchers |-> 0]
  /\ closing = {}
  /\ rl = [r \in Reloads |-> NoReload]
  /\ nextR = 1
  /\ saveTimer = 0
  /\ storage = NoStorage
  /\ emitted = <<>>
  /\ ret = NoRet
  /\ foundRuns = [t \in Tasks |-> 0]
  /\ stopReturned = [t \in Tasks |-> FALSE]

NextFile ==
  \/ CreateOne
  \/ StartStep
  \/ DetectorStep
  \/ MonitorStep
  \/ StopStep
  \/ DeleteStep
  \/ SaveStep
  \/ StorageStep

SpecFile == InitFile /\ [][NextFile]_vars

\* The manager as its clients see it through the routes of server/index.js, started
\* from a tasks file: requests with good and bad task specs, with known and unknown
\* ids, and listings; createTask is also called directly, as any other caller of the
\* manager may.
NextApi ==
  \/ PostStep
  \/ \E sp \in TaskSpecs : createTask(sp)
  \/ StartStep
  \/ UnknownIdStep
  \/ ListStep

SpecApi == InitLoad /\ [][NextApi]_vars

\* Detection left to itself: tasks are created and found, nothing stops, deletes or
\* reloads them.  Timers fire and browser calls settle.
NextDetect ==
  \/ \E sp \in TaskSpecs : createTask(sp)
  \/ StartStep
  \/ DetectorStep
  \/ MonitorStep

FairMonitor ==
  \A t \in Tasks :
    /\ WF_vars(MonitorTick(t))
    /\ WF_vars(\E x \in Watchers, maybe \in {NoHref, Recovered} : EvalDone(t, x, maybe))

SpecDetect == Init /\ [][NextDetect]_vars /\ FairStart /\ FairMonitor

ReloadCycle(x) ==
  \/ ReloadFire(x)
  \/ \E ok \in BOOLEAN : ReloadAcquireDone(x, ok)
  \/ ReloadNavDone(x)
  \/ \E ok \in BOOLEAN : ReloadInjectDone(x, ok)

RotateCycle(x) ==
  \/ RotateFire(x)
  \/ RotateCloseDone(x)
  \/ \E ok \in BOOLEAN : RotateAcquireDone(x, ok)
  \/ RotateNavDone(x)
  \/ \E ok \in BOOLEAN : RotateInjectDone(x, ok)
  \/ RotateCloseOldDone(x)

CycleStep == \E x \in Watchers : ReloadCycle(x) \/ RotateCycle(x)

\* One task left to its Watcher: its start, the periodic reload and rotation, the
\* detector and the monitor.
NextCycle ==
  \/ CreateOne
  \/ StartStep
  \/ CycleStep
  \/ DetectorStep
  \/ MonitorStep

SpecCycle == Init /\ [][NextCycle]_vars

\* No operation is requested once shutdown() has been called.
CreateBeforeShutdown == sd.pc = "idle" /\ CreateOne

\* One task with a tasks file, its Watcher with its reload and rotation cycles, and a
\* shutdown() at any moment; what was in flight goes on after it.
NextShutdown ==
  \/ CreateBeforeShutdown
  \/ StartStep
  \/ CycleStep
  \/ SaveStep
  \/ ShutdownStep

SpecShutdown == InitFile /\ [][NextShutdown]_vars

CrashStep == CrashInSave \/ CrashInStorageWrite

\* One task with a tasks file, and storage.js next to it, in a process that may die
\* while it writes; a process that has died takes no step.
NextCrash ==
  \/ ~crashed /\ CreateOne
  \/ ~crashed /\ StartStep
  \/ ~crashed /\ StopStep
  \/ ~crashed /\ SaveStep
  \/ ~crashed /\ StorageStep
  \/ CrashStep

SpecCrash == InitFile /\ [][NextCrash]_vars

\* One task with a tasks file whose writes may fail, before or after the file was
\* opened for writing.
NextTorn ==
  \/ CreateOne
  \/ StartStep
  \/ StopStep
  \/ DeleteStep
  \/ ReloadStep
  \/ SaveStep
  \/ SaveTimerFireCut

SpecTorn == InitFile /\ [][NextTorn]_vars

\* A millisecond passes.
Tick ==
  /\ now < MaxClock
  /\ now' = now + 1
  /\ ret' = NoRet
  /\ emitted' = <<>>
  /\ received' = Deliver(emitted')
  /\ UNCHANGED <<maxPages, tasksFile, loaded, random, idOf, crashed, storage, sseClients, throwing, handle, sd, browser,
                 tasks, obj, nextId, ws, nextW, monitors, evals, closing, rl, nextR, file,
                 lastSavedJson, saveTimer, foundRuns, stopReturned>>

\* A process whose Math.random may give any suffixes.
InitIds ==
  /\ maxPages = DefaultMaxPages
  /\ browser = "null"
  /\ sseClients = <<>>
  /\ throwing = {}
  /\ handle = [s \in Subscribers |-> "none"]
  /\ sd = NoShutdown
  /\ crashed = FALSE
  /\ now = 1
  /\ random \in [1..MaxTasks -> Suffixes]
  /\ received = [s \in Subscribers |-> <<>>]
  /\ tasksFile = FALSE
  /\ loaded = <<>>
  /\ tasks = <<>>
  /\ idOf = [t \in Tasks |-> NoId]
  /\ obj = [t \in Tasks |-> NoTask]
  /\ nextId = 1
  /\ ws = [w \in Watchers |-> NoWatcherObj]
  /\ nextW = 1
  /\ monitors = [t \in Tasks |-> 0]
  /\ evals = [p \in Tasks \X Watchers |-> 0]
  /\ closing = {}
  /\ rl = [r \in Reloads |-> NoReload]
  /\ nextR = 1
  /\ file = <<>>
  /\ lastSavedJson = <<>>
  /\ saveTimer = 0
  /\ storage = NoStorage
  /\ emitted = <<>>
  /\ ret = NoRet
  /\ foundRuns = [t \in Tasks |-> 0]
  /\ stopReturned = [t \in Tasks |-> FALSE]

\* Tasks created at any time, started and deleted.
NextIds ==
  \/ \E sp \in TaskSpecs : createTask(sp)
  \/ Tick
  \/ StartStep
  \/ DeleteStep

SpecIds == InitIds /\ [][NextIds]_vars

\* page.goto and the page.reload that follows a failed goto have settled; navOk says
\* whether one of them succeeded.  Both rejections are caught and logged, so what
\* follows does not depend on navOk.
NavSettles(x, navOk) ==
  /\ navOk \in BOOLEAN
  /\ NavDone(x)

\* One task whose Watcher starts, with navigations that succeed or fail, and then
\* reloads and rotates.
NextStart ==
  \/ CreateOne
  \/ StartStep
  \/ \E x \in Watchers, navOk \in BOOLEAN : NavSettles(x, navOk)
  \/ CycleStep
  \/ DetectorStep

SpecStart == Init /\ [][NextStart]_vars

\* One task that is stopped or deleted at any moment of its Watcher's start, reloads
\* and rotations.
NextLeak ==
  \/ CreateOne
  \/ StartStep
  \/ CycleStep
  \/ StopStep
  \/ DeleteStep

SpecLeak == Init /\ [][NextLeak]_vars

\* One task that is created, found or stopped, while clients subscribe to the events
\* and unsubscribe.
NextSse ==
  \/ CreateOne
  \/ StartStep
  \/ DetectorStep
  \/ MonitorStep
  \/ StopStep
  \/ SseStep

SpecSse == Init /\ [][NextSse]_vars

\* ------------------------------------------------------------------ claims
\* C1: at every moment the number of open underlying sessions is at most the
\* configured ceiling maxPages.
C1_CeilingRespected == OpenSessions <= maxPages

\* C2: for every task the found-completion sequence (found and alarmStarted
\* broadcasts, booking automation) is executed at most once.
C2_FoundSequenceOnce == \A t \in Tasks : foundRuns[t] <= 1

\* A step of watcher x's start() that uses the browser: the session is acquired, the
\* page has been navigated, or the detector script has been injected.
SessionActivity(x) ==
  \/ ws[x].pc = "acquire" /\ ws'[x].pc = "nav"
  \/ ws[x].pc = "nav" /\ ws'[x].pc = "inject"
  \/ ws[x].pc = "inject" /\ ws'[x].pc = "started"

\* C3: once stopTask has returned for a task, no Watcher of that task acquires a
\* session, navigates or injects any more.
C3_NoActivityAfterStop ==
  [][\A x \in Watchers :
       (ws[x].task \in Tasks /\ stopReturned[ws[x].task]) => ~SessionActivity(x)]_vars

\* The start() of watcher x settles in this step.
Settles(x) == ws[x].pc \in {"acquire", "nav", "inject"} /\ ws'[x].pc \in {"started", "failed"}

\* C4: createTask inserts the task as starting and broadcasts taskCreated; when its
\* start succeeds the status becomes running and taskStarted is broadcast, when it
\* fails the status becomes error and taskError is broadcast.
C4_CreateOutcome ==
  [][/\ nextId' # nextId =>
          /\ obj'[nextId].status = "starting"
          /\ tasks' = Append(tasks, nextId)
          /\ emitted' = <<Ev("taskCreated", nextId, "starting", NoHref)>>
     /\ \A x \in Watchers :
          (ws[x].caller = "create" /\ Settles(x)) =>
             LET t == ws[x].task IN
             /\ ws'[x].pc = "started" =>
                   /\ obj'[t].status = "running"
                   /\ emitted' = <<Ev("taskStarted", t, "running", obj'[t].foundHref)>>
             /\ ws'[x].pc = "failed" =>
                   /\ obj'[t].status = "error"
                   /\ emitted' = <<Ev("taskError", t, "error", NoHref)>>]_vars

\* The task has a Watch Session: a watcher handle whose Watcher is running.
HasWatchSession(o, w, t) == o[t].watcher # NoWatcher /\ w[o[t].watcher].running

\* C6: when reloadTask returns, every task that was active when it was called and is
\* still registered (and was not stopped or found meanwhile) has status running or
\* error, and a running one has a Watch Session.
C6_ReloadRestoresActive ==
  [][\A r \in Reloads :
       (rl[r].pc # "done" /\ rl'[r].pc = "done") =>
         \A t \in rl[r].active0 :
           (t \in {tasks'[i] : i \in 1..Len(tasks')} /\ obj'[t].status \notin {"stopped", "found"})
             => /\ obj'[t].status \in {"running", "error"}
                /\ obj'[t].status = "running" => HasWatchSession(obj', ws', t)]_vars

\* C7: when reloadTask has returned, no Watcher constructed before the reload is a
\* task's watcher and none of them has a session open.
C7_NoPreReloadSession ==
  \A r \in Reloads :
    rl[r].pc = "done" =>
      /\ \A t \in RegistrySet : obj[t].watcher \notin rl[r].watchers0
      /\ \A x \in rl[r].watchers0 : ws[x].page # "open"

\* The Watch Session of running task t has latched a report of href h.
Latched(t, h) ==
  /\ obj[t].status = "running"
  /\ obj[t].watcher # NoWatcher
  /\ ws[obj[t].watcher].found
  /\ ws[obj[t].watcher].foundHref = h

FoundAs(t, h) == obj[t].status = "found" /\ obj[t].foundHref = h

\* The found events of task t among the events of the last step.
FoundEvents(em, t) == {i \in 1..Len(em) : em[i].type = "found" /\ em[i].id = t}

\* The Watch Session of task t holds a report of href h.
Reported(t, h) ==
  /\ obj[t].watcher # NoWatcher
  /\ ws[obj[t].watcher].found
  /\ ws[obj[t].watcher].foundHref = h

\* C5 (as stated): whatever href h the detector reports for a running task, null
\* included, the task ends up found with foundHref = h and its found event carries h.
C5_ReportedHrefFound ==
  /\ \A t \in Tasks, h \in Hrefs \cup {NoHref} : Latched(t, h) ~> []FoundAs(t, h)
  /\ [][\A t \in Tasks : \A i \in FoundEvents(emitted', t) :
          \A h \in Hrefs \cup {NoHref} : Reported(t, h) => emitted'[i].href = h]_vars

\* C5 (amended): the first report on the task's Watch Session, when it carries a
\* non-null href h, leads to status found with foundHref = h for good; the found
\* event is broadcast once and carries that status and href.
C5_FirstHrefFound ==
  /\ \A t \in Tasks, h \in Hrefs : Latched(t, h) ~> []FoundAs(t, h)
  /\ [][\A t \in Tasks : \A i \in FoundEvents(emitted', t) :
          /\ emitted'[i].status = "found"
          /\ emitted'[i].href = obj'[t].foundHref
          /\ \A h \in Hrefs : Reported(t, h) => emitted'[i].href = h]_vars
  /\ [](\A t \in Tasks : foundRuns[t] <= 1)

\* A task was found with the href its detector reported and the event went out.
C5_Witness ==
  \E t \in Tasks :
    /\ FoundAs(t, "h1")
    /\ FoundEvents(emitted, t) # {}
    /\ foundRuns[t] = 1

\* Tasks read from the tasks file as active, and as terminal.
LoadedActive == {t \in 1..Len(loaded) : loaded[t].status \in {"running", "starting"}}

LoadedTerminal == {t \in 1..Len(loaded) : loaded[t].status \in {"found", "stopped", "error"}}

WatchersOf(t) == {x \in Watchers : ws[x].task = t}

\* C8: every task persisted as running or starting keeps its id and place in the
\* registry, gets exactly one Watcher with at most one session open, and eventually
\* has status running or error.
C8_ResumedOnce ==
  /\ [](\A t \in LoadedActive :
          /\ Len(tasks) = Len(loaded) /\ tasks[t] = t
          /\ Cardinality(WatchersOf(t)) = 1
          /\ CountOpen(ws, WatchersOf(t)) <= 1
          /\ obj[t].status \in {"starting", "running", "error", "found"})
  /\ \A t \in Tasks : (t \in LoadedActive) => <>(obj[t].status \in {"running", "error"})

\* A task persisted as starting has been resumed: running, one session, 'resumed' sent.
C8_Witness ==
  \E t \in LoadedActive :
    /\ loaded[t].status = "starting"
    /\ obj[t].status = "running"
    /\ HasWatchSession(obj, ws, t)
    /\ ws[obj[t].watcher].page = "open"
    /\ emitted = <<Ev("resumed", t, "running", obj[t].foundHref)>>

\* C9: a task persisted as found, stopped or error keeps its status and foundHref,
\* gets no Watcher, and no event is broadcast for it.
C9_TerminalUntouched ==
  \A t \in LoadedTerminal :
    /\ InRegistry(t)
    /\ obj[t].status = loaded[t].status
    /\ obj[t].foundHref = loaded[t].foundHref
    /\ obj[t].watcher = NoWatcher
    /\ WatchersOf(t) = {}
    /\ \A i \in 1..Len(emitted) : emitted[i].id # t

\* A found task and an error task were loaded next to a running one, which has been
\* resumed since.
C9_Witness ==
  \E t \in LoadedTerminal, u \in LoadedActive :
    /\ loaded[t].status = "error"
    /\ obj[u].status = "running"
    /\ ws[obj[u].watcher].pc = "started"

\* The events of the last step include a stopped or deleted event.
StoppedOrDeleted(em) == \E i \in 1..Len(em) : em[i].type \in {"stopped", "deleted"}

C11_OneWritePerBurst ==
  /\ [](saveTimer <= 1 /\ storage.timer <= 1)
  /\ [][(\E okWrite \in BOOLEAN : SaveTimerFire(okWrite)) =>
          /\ saveTimer' = 0
          /\ file' \in {file, ToSave(tasks', obj')}]_vars
  /\ [][(\E okWrite \in BOOLEAN : StorageTimerFire(okWrite)) =>
          /\ storage'.timer = 0
          /\ storage'.file \in {storage.file, storage'.cache}]_vars
  /\ [][(file' # file /\ ~StoppedOrDeleted(emitted')) => saveTimer' = 0]_vars

\* createTask and the end of its start both asked for a debounced save, and so did
\* two calls of storage.write; each timeout has fired once and written the latest.
C11_Witness ==
  /\ saveTimer = 0
  /\ Len(file) = 1 /\ file[1].status = "running"
  /\ file = ToSave(tasks, obj)
  /\ storage = [cache |-> "d2", timer |-> 0, file |-> "d2"]

\* The step leaves the registry, the task objects, the Watchers and their sessions,
\* the monitors, the tasks file, the save timer, the subscribers and the browser as
\* they were, and broadcasts nothing.
NoEffect ==
  /\ emitted' = <<>>
  /\ UNCHANGED <<tasks, obj, nextId, ws, nextW, monitors, evals, closing, rl, nextR, file,
                 lastSavedJson, saveTimer, sseClients, browser, foundRuns, stopReturned>>

\* C12 (as stated): createTask called with an empty target URL or search identifier
\* has no effect.
C12_CreateTaskValidates ==
  [][\A sp \in {"noUrl", "noIdentifier"} : createTask(sp) => NoEffect]_vars

\* C12 (amended): a POST /api/tasks whose location, target URL or search identifier
\* is empty is answered 400 and has no effect.
C12_RouteValidates ==
  [][\A sp \in TaskSpecs \ {"ok"} :
       PostTasks(sp) => (ret'.v = "400" /\ NoEffect)]_vars

\* A request with a bad task spec has just been refused while a task is starting.
C12_Witness ==
  /\ ret = Ret("POST /api/tasks", "400", <<>>)
  /\ \E t \in RegistrySet : obj[t].status = "starting" /\ ws[obj[t].watcher].pc = "nav"

\* C13: stopTask, deleteTask and reloadTask called with an id that is not in the
\* registry return false, and a call that returns false has changed nothing and
\* broadcast nothing.
C13_UnknownIdNoEffect ==
  /\ [][\A id \in Tasks :
          (StopTaskNotFound(id) \/ DeleteTaskNotFound(id) \/ ReloadTaskNotFound(id))
            => (~InRegistry(id) /\ ret'.v = "false")]_vars
  /\ [][ret'.v = "false" => NoEffect]_vars

\* deleteTask has just returned false for an unknown id while another task's start
\* is in flight.
C13_Witness ==
  /\ ret = Ret("deleteTask", "false", <<>>)
  /\ \E t \in RegistrySet : obj[t].status = "starting" /\ ws[obj[t].watcher].pc = "inject"
  /\ Tasks \ RegistrySet # {}

\* C14: when the start of a task's Watcher fails, whoever started it, the task's
\* status becomes error and an error event naming the task is broadcast.
C14_StartFailureBroadcast ==
  [][\A x \in Watchers :
       (Settles(x) /\ ws'[x].pc = "failed") =>
          LET t == ws[x].task IN
          /\ obj'[t].status = "error"
          /\ \E i \in 1..Len(emitted') :
               emitted'[i].type = "taskError" /\ emitted'[i].id = t]_vars

\* A reload or rotation callback of watcher x takes a step.
InCycle(x) == ReloadCycle(x) \/ RotateCycle(x)

\* For a started Watcher that is running and has not found: a reload is pending or
\* in progress, and so is a rotation.
CyclesGoOn(x) ==
  /\ ws[x].reloadTimer \/ ws[x].reloadPc # "idle"
  /\ ws[x].rotateTimer \/ ws[x].rotatePc # "idle"

\* C15: a step of a reload or rotation cycle, failing or not, leaves the task's
\* status and the Watcher's running flag as they were; and after a failure inside a
\* cycle both a reload and a rotation stay scheduled for as long as the Watcher runs
\* and has found nothing.
C15_CycleFailureAbsorbed ==
  /\ [][\A x \in Watchers :
          InCycle(x) => (obj' = obj /\ ws'[x].running = ws[x].running)]_vars
  /\ [](\A x \in Watchers :
          (ws[x].pc = "started" /\ ws[x].running /\ ~ws[x].found /\ ws[x].cycleFailed)
            => CyclesGoOn(x))

\* The ids of a list of task records, in order.
IdsOf(L) == [i \in 1..Len(L) |-> L[i].id]

\* C16: getTasks({all:true}) returns one record per registry task in registry order;
\* getTasks() returns exactly the tasks whose status is starting, running or found,
\* once each and in registry order; no record has a watcher field, every record shows
\* the task's current status, and the call changes nothing.
C16_GetTasksView ==
  [][\A all \in BOOLEAN :
       getTasks(all) =>
         LET L == ret'.list IN
         /\ all => IdsOf(L) = tasks
         /\ ~all =>
              /\ {L[i].id : i \in 1..Len(L)} =
                   {t \in RegistrySet : obj[t].status \in {"starting", "running", "found"}}
              /\ \A i, j \in 1..Len(L) :
                   i < j => IndexOf(tasks, L[i].id) < IndexOf(tasks, L[j].id)
         /\ \A i \in 1..Len(L) :
              /\ "watcher" \notin DOMAIN L[i]
              /\ L[i].status = obj[L[i].id].status
              /\ L[i].foundHref = obj[L[i].id].foundHref
         /\ NoEffect]_vars

\* getTasks() has just listed the second of two registry tasks, a found one, and left
\* out the first, which is stopped.
C16_Witness ==
  /\ ret.op = "getTasks"
  /\ Len(tasks) = 2
  /\ IdsOf(ret.list) = <<2>>
  /\ obj[1].status = "stopped" /\ obj[2].status = "found"

\* Task t is in the list getTasks({all}) would return.
Listed(all, t) == \E i \in 1..Len(TaskList(all)) : TaskList(all)[i].id = t

InFile(t) == \E i \in 1..Len(file) : file[i].id = t

\* The step returns true from op and broadcasts its event of the given type for t.
ReturnsTrue(op, type, t) ==
  /\ ret'.op = op /\ ret'.v = "true"
  /\ \E i \in 1..Len(emitted') : emitted'[i].type = type /\ emitted'[i].id = t

\* C17: when stopTask returns true for a running task, the task is not in the active
\* list and is in the full list; when deleteTask returns true for a running task, the
\* task is in neither list nor in the tasks file; and a task that has left the
\* registry never comes back.
C17_StoppedHiddenDeletedGone ==
  /\ [][\A t \in Tasks :
          (obj[t].status = "running" /\ InRegistry(t)) =>
            /\ ReturnsTrue("stopTask", "stopped", t) =>
                 (~Listed(FALSE, t)' /\ Listed(TRUE, t)')
            /\ ReturnsTrue("deleteTask", "deleted", t) =>
                 (~Listed(FALSE, t)' /\ ~Listed(TRUE, t)' /\ ~InFile(t)')]_vars
  /\ [][\A t \in Tasks : (t < nextId /\ ~InRegistry(t)) => ~InRegistry(t)']_vars

\* C18: in every step a subscriber's send function is called with exactly the events
\* broadcast in that step, once each and in emission order, when its addSseClient
\* call has returned and its unsubscribe handle has not been called; before and after
\* it is called with nothing.
C18_ExactlyWhileSubscribed ==
  \A s \in Subscribers :
    received[s] = IF handle[s] = "held" THEN emitted ELSE <<>>

\* A task was found: the subscriber that holds its handle has just received found and
\* alarmStarted in this order, the one whose handle was called beforehand nothing.
C18_Witness ==
  \E s, u \in Subscribers :
    /\ handle[s] = "held" /\ handle[u] = "called"
    /\ Len(emitted) = 2
    /\ emitted[1].type = "found" /\ emitted[2].type = "alarmStarted"
    /\ received[s] = emitted
    /\ received[u] = <<>>

\* The events of the last step include one of the given type.
Broadcasts(em, type) == \E i \in 1..Len(em) : em[i].type = type

\* C19: while a subscribed send function throws, every subscribed send function, the
\* throwing one too, is still called with every event; the throwing one stays in the
\* set of clients through the broadcast; and the operation that broadcast goes on as
\* usual (stopTask still returns true after its stopped event).
C19_ThrowingSendIsolated ==
  /\ [](\A s, u \in Subscribers :
          (handle[s] = "held" /\ s \in throwing /\ handle[u] = "held")
            => received[u] = emitted)
  /\ [][\A s \in Subscribers :
          (IsClient(s) /\ s \in throwing /\ emitted' # <<>>) => IsClient(s)']_vars
  /\ [][(Broadcasts(emitted', "stopped") /\ \E s \in throwing : IsClient(s))
          => ret' = Ret("stopTask", "true", <<>>)]_vars

\* The first client of the set throws; the second has just received the stopped event
\* all the same, and the first was called with it too.
C19_Witness ==
  /\ Len(sseClients) = 2
  /\ sseClients[1] \in throwing /\ sseClients[2] \notin throwing
  /\ Broadcasts(emitted, "stopped")
  /\ received[sseClients[2]] = emitted
  /\ received[sseClients[1]] = emitted

\* C20: once shutdown() has completed, no Watcher is running, no session is open
\* (referenced by a Watcher or lost), there is no browser, and the tasks file equals
\* the registry whenever the last save of the registry did not fail.
C20_ShutdownLeavesNothing ==
  sd.pc = "done" =>
    /\ \A x \in Watchers : ~ws[x].running /\ ws[x].page # "open" /\ ~ws[x].leaked
    /\ browser = "null"
    /\ lastSavedJson = ToSave(tasks, obj) => file = ToSave(tasks, obj)

\* C21: when the process dies during a persistence write, the tasks file (and the
\* tasks.json of storage.js) holds the complete snapshot it held before the write or
\* the complete snapshot that was being written.
C21_CrashLeavesWholeSnapshot ==
  [][(crashed' /\ ~crashed) =>
       /\ file' \in {file, ToSave(tasks, obj)}
       /\ storage'.file \in {storage.file, storage.cache}]_vars

\* C22: a save whose write fails changes no task, and the stopTask it is part of
\* still marks the task stopped, broadcasts and returns true; a save whose write
\* does not fail leaves the tasks file equal to the registry; and whenever the
\* unchanged check would skip a write (_lastSavedJson is the text of the registry),
\* the tasks file holds the registry.
C22_FailedWriteReconciled ==
  /\ [][(SaveTimerFire(FALSE) \/ SaveTimerFireCut) => (tasks' = tasks /\ obj' = obj)]_vars
  /\ [][\A c \in closing :
          (c.by = "stopTask" /\ StopTaskFinish(c, FALSE)) =>
             /\ obj'[c.t].status = "stopped"
             /\ emitted' = <<Ev("stopped", c.t, "stopped", obj[c.t].foundHref)>>
             /\ ret'.v = "true"]_vars
  /\ [][(SaveTimerFire(TRUE) /\ tasksFile) => file' = ToSave(tasks', obj')]_vars
  /\ [](lastSavedJson = ToSave(tasks, obj) => file = ToSave(tasks, obj))

\* C23: the ids of the tasks in the registry are pairwise distinct, and the id of a
\* task object never changes once createTask has set it.
C23_IdsDistinctAndFixed ==
  /\ [](\A i, j \in 1..Len(tasks) : i # j => idOf[tasks[i]] # idOf[tasks[j]])
  /\ [][\A t \in Tasks : idOf[t] # NoId => idOf'[t] = idOf[t]]_vars

\* The lifecycle operations on task t that have begun and not yet finished: starts
\* by createTask or by the load-time resume, stopTask calls, found sequences of a
\* monitor, reloadTask calls and shutdown.
OpsInFlight(t) ==
  {<<"start", x>> : x \in {y \in Watchers : /\ ws[y].task = t
                                             /\ ws[y].caller \in {"create", "resume"}
                                             /\ ws[y].pc \in {"acquire", "nav", "inject"}}}
  \cup {<<c.by, c.w>> : c \in {d \in closing : d.t = t /\ d.by \in {"stopTask", "monitor"}}}
  \cup {<<"monitor", x>> : x \in {y \in Watchers : evals[<<t, y>>] > 0}}
  \cup {<<"reloadTask", r>> : r \in {q \in Reloads : rl[q].pc \notin {"idle", "done"}}}
  \cup {<<"shutdown", 0>> : k \in {i \in {0} : sd.pc \notin {"idle", "done"}}}

\* C24: a step that changes the status of a task is taken while at most one
\* lifecycle operation on that task is in flight (the one that takes it): no
\* operation writes the status while another one on the same task is in flight.
C24_StatusWritesSerialized ==
  [][\A t \in Tasks :
       (obj[t].status # "none" /\ obj'[t].status # obj[t].status) =>
          Cardinality(OpsInFlight(t)) <= 1]_vars

\* The status changes the specification allows.
LinearTransitions ==
  {<<"starting", "running">>, <<"running", "found">>, <<"running", "stopped">>,
   <<"running", "error">>}

\* C25: every change of the status of a task is starting->running, running->found,
\* running->stopped or running->error: no status is skipped, running never goes
\* back to starting, and found never changes.
C25_LinearStatus ==
  [][\A t \in Tasks :
       (obj[t].status # "none" /\ obj'[t].status # obj[t].status) =>
          <<obj[t].status, obj'[t].status>> \in LinearTransitions]_vars

\* C26: in every state a task of the registry whose status is starting or running
\* has a Watcher in task.watcher, and that Watcher has not been stopped.
C26_ActiveTaskHasWatcher ==
  \A i \in 1..Len(tasks) :
    obj[tasks[i]].status \in {"starting", "running"} =>
      /\ obj[tasks[i]].watcher # NoWatcher
      /\ ws[obj[tasks[i]].watcher].running

\* The Watchers of task t that have not found their target and are attaching or
\* watching (running) or hold an open session, the stops in flight left aside.
NonTerminal(t) ==
  {x \in Watchers : /\ ws[x].task = t
                    /\ ~ws[x].found
                    /\ ws[x].running \/ ws[x].page = "open"
                    /\ \A c \in closing : c.w # x}

\* C27: every task has at most one Watcher that is neither stopped nor found.
C27_OneNonTerminalWatcher == \A t \in Tasks : Cardinality(NonTerminal(t)) <= 1

\* No operation on task t is in flight: no start of a Watcher of t is pending, no
\* stop of one awaits its close, no found sequence awaits its page.evaluate, and no
\* reloadTask or shutdown is under way.
Quiet(t) ==
  /\ \A x \in Watchers : ws[x].task = t => ws[x].pc \notin {"acquire", "nav", "inject"}
  /\ \A c \in closing : c.t # t
  /\ \A x \in Watchers : evals[<<t, x>>] = 0
  /\ \A r \in Reloads : rl[r].pc \in {"idle", "done"}
  /\ sd.pc \in {"idle", "done"}

\* C28: whenever no operation on a task of the registry is in flight, its foundHref
\* is non-null exactly when its status is found.
C28_FoundHrefIffFound ==
  \A i \in 1..Len(tasks) :
    Quiet(tasks[i]) =>
      (obj[tasks[i]].foundHref # NoHref <=> obj[tasks[i]].status = "found")

\* C29: a task whose status is found has, from some later moment on or at once, a
\* non-null foundHref, whatever href the detector passed and whether or not the
\* monitor's recovery brought one.
C29_FoundGetsHref ==
  \A t \in Tasks : (obj[t].status = "found") ~> (obj[t].foundHref # NoHref)

\* C30: the step in which a rotation begins leaves the current session of the
\* Watcher open (the old session is closed only once the replacement is acquired,
\* navigated and injected), and when the pageFactory call of a rotation that had a
\* session fails, the Watcher still has an open current session.
C30_RotateKeepsOldUntilAttached ==
  /\ [][\A x \in Watchers :
          (ws[x].rotatePc = "idle" /\ ws'[x].rotatePc # "idle") =>
             ws'[x].page = ws[x].page]_vars
  /\ [][\A x \in Watchers :
          (ws[x].rotateOld /\ RotateAcquireDone(x, FALSE)) => ws'[x].page = "open"]_vars

C32_ReloadCadenceAlive ==
  \A x \in Watchers :
    (ws[x].pc = "started" /\ ws[x].running /\ ~ws[x].found /\ ws[x].rotatePc = "idle") =>
      (ws[x].reloadTimer \/ ws[x].reloadPc # "idle")

\* stop() was called on Watcher x after its start() and has returned.
StopHasReturned(x) ==
  /\ ws[x].pc = "started"
  /\ ~ws[x].running
  /\ \A c \in closing : c.w # x

\* C33: once stop() has returned on a started Watcher, no step arms its reload or
\* its rotate timer, whatever callback was executing when stop() was called.
C33_NoTimerAfterStop ==
  [][\A x \in Watchers :
       StopHasReturned(x) =>
         /\ ws'[x].reloadTimer => ws[x].reloadTimer
         /\ ws'[x].rotateTimer => ws[x].rotateTimer]_vars

\* C34: start() fails when pageFactory rejects and when goto and the retry both
\* fail; a Watcher whose start() failed is not running, has no timer pending and
\* holds no open session.
C34_FailedStartNotStarted ==
  /\ [][\A x \in Watchers : AcquireFail(x) => ws'[x].pc = "failed"]_vars
  /\ [][\A x \in Watchers :
          (ws[x].page = "open" /\ NavSettles(x, FALSE)) => ws'[x].pc = "failed"]_vars
  /\ [](\A x \in Watchers :
          ws[x].pc = "failed" =>
            /\ ~ws[x].running
            /\ ~ws[x].reloadTimer /\ ~ws[x].rotateTimer
            /\ ws[x].page # "open")

\* C35: a task of the registry for which stopTask has returned true has status
\* stopped, whatever start was in flight for it when stopTask was called.
C35_StoppedStaysStopped ==
  \A i \in 1..Len(tasks) : stopReturned[tasks[i]] => obj[tasks[i]].status = "stopped"

\* Nothing is under way for Watcher x: no start, no reload or rotate callback, no
\* stop, and no timer is pending.
AtRest(x) ==
  /\ ws[x].pc \notin {"acquire", "nav", "inject"}
  /\ ws[x].reloadPc = "idle" /\ ws[x].rotatePc = "idle"
  /\ ~ws[x].reloadTimer /\ ~ws[x].rotateTimer
  /\ \A c \in closing : c.w # x

\* C36: when every task of the registry is stopped or found and nothing is under
\* way for any Watcher, no session is open: none held by a Watcher and none that a
\* Watcher dropped without closing it.
C36_NoSessionLeak ==
  (/\ \A i \in 1..Len(tasks) : obj[tasks[i]].status \in {"stopped", "found"}
   /\ \A x \in Watchers : AtRest(x))
  => \A x \in Watchers : ws[x].page # "open" /\ ~ws[x].leaked

\* C37: every task has at most one live monitor interval, after any number of
\* reloadTask cycles.
C37_OneMonitorPerTask == \A t \in Tasks : monitors[t] <= 1

\* Task t was created and deleteTask has removed it from the registry.
Deleted(t) == t < nextId /\ ~InRegistry(t)

\* C38: once deleteTask has returned true for a task, no step broadcasts an event
\* with its id and no found sequence (which invokes the booking automation) runs
\* for it.
C38_SilentAfterDelete ==
  [][\A t \in Tasks :
       Deleted(t) =>
         /\ \A i \in 1..Len(emitted') : emitted'[i].id # t
         /\ foundRuns'[t] = foundRuns[t]]_vars

\* A step of a reloadTask call: one of its own steps, or the step in which a start
\* awaited by its restartAllWatchers settles.
ReloadTaskStep ==
  \/ ReloadStep
  \/ \E x \in Watchers : /\ ws[x].caller = "restart"
                         /\ ws[x].pc \in {"acquire", "nav", "inject"}
                         /\ ws'[x].pc \in {"started", "failed"}

\* C39: a step of reloadTask leaves every task of the registry whose status is
\* found, stopped or error as it is: status and foundHref are unchanged, a task
\* without a Watcher gets none, and no Watcher is constructed for it.
C39_ReloadLeavesTerminal ==
  [][ReloadTaskStep =>
       \A t \in Tasks :
         (InRegistry(t) /\ obj[t].status \in {"found", "stopped", "error"}) =>
            /\ obj'[t].status = obj[t].status
            /\ obj'[t].foundHref = obj[t].foundHref
            /\ obj[t].watcher = NoWatcher => obj'[t].watcher = NoWatcher
            /\ \A x \in Watchers : ws'[x].task = t => ws[x].task = t]_vars

====
